---- MODULE Spec2Model ----
(***************************************************************************)
(* A model of the openedgar ingestion pipeline:                            *)
(*   clients/openedgar.py  get_buffer        (retry / poison detection)    *)
(*   tasks.py              process_filing_index, process_filing,           *)
(*                         create_filing_documents, create_filing_error    *)
(*   models.py             Filing, FilingDocument, Company                 *)
(***************************************************************************)
EXTENDS Integers, Sequences, FiniteSets, TLC

\* ------------------------------------------------------------------------
\* Bounds of the model
\* ------------------------------------------------------------------------
MaxBackoffLen == 3
MaxDocs == 2
MaxConcurrentDocs == 1
MaxCalls == 2
MaxRows == 2
MaxLinks == 3
\* the longest feed a reconciler is called with
MaxFeed == 2

\* ------------------------------------------------------------------------
\* Values
\* ------------------------------------------------------------------------
\* Python's None
None == [tag |-> "None"]

\* backoff delays (seconds) a configuration may hold in HTTP_FAIL_SLEEP
Delays == {1, 2}

\* values HTTP_SLEEP_DEFAULT may be configured to
DefaultSleeps == {0, 1}

\* the three byte strings get_buffer looks for in a response body
RATE_MARKER == "SEC.gov | Request Rate Threshold Exceeded"
NOTFOUND_MARKER == "SEC.gov | File Not Found Error Alert (404)"
DENIED_MARKER == "<Error><Code>AccessDenied</Code><Message>Access Denied</Message><RequestId>"
Markers == {RATE_MARKER, NOTFOUND_MARKER, DENIED_MARKER}

\* the messages of the RuntimeError raised for each marker
RATE_MESSAGE == "Exceeded SEC request rate threshold; invalid data retrieved"
NOTFOUND_MESSAGE == "HTTP 404 for requested path"
DENIED_MESSAGE == "Access denied accessing path"

\* HTTP status codes a completed request may carry
StatusCodes == {200, 403, 404}

\* a response body (r.content), abstracted to the set of markers its bytes contain
Bytes(markers) == [tag |-> "bytes", markers |-> markers]
Bodies == {Bytes(m) : m \in SUBSET Markers}

\* the Last-Modified header of a response: absent, parseable, or unparseable
LastModifiedHeaders == {"absent", "valid", "invalid"}

\* the workers (Celery tasks) that may run at the same time
Workers == {"w1", "w2"}

\* accession numbers of the filings of the index feed
Accessions == {"f1", "f2"}

\* content hashes: EMPTY_SHA1 is the hash of a sub-document without content
EMPTY_SHA1 == "da39a3ee"
Shas == {EMPTY_SHA1, "a", "b"}

\* all sequences over S of length at most n
RECURSIVE SeqsUpTo(_, _)
SeqsUpTo(S, n) ==
    IF n = 0 THEN {<<>>}
    ELSE LET shorter == SeqsUpTo(S, n - 1)
         IN  shorter \cup {Append(s, x) : s \in {t \in shorter : Len(t) = n - 1}, x \in S}

VARIABLES
    HTTP_FAIL_SLEEP,      \* config: the backoff sequence
    HTTP_SLEEP_DEFAULT,   \* config: the delay after a completed request
    gbPc,                 \* get_buffer: "idle", "loop", "check", "returned", "raised"
    complete,             \* get_buffer local
    failures,             \* get_buffer local
    file_buffer,          \* get_buffer local
    last_modified_date,   \* get_buffer local
    status_code,          \* r.status_code of the last completed request (0 if none)
    attempts,             \* number of s.get calls issued by the current call
    sleeps,               \* the time.sleep calls of the current call, in order
    gbResult,             \* what the call handed to its caller
    filings,              \* catalog: the Filing rows
    documents,            \* catalog: the FilingDocument rows
    companies,            \* catalog: the Company rows
    store,                \* content store: the paths that exist
    writes,               \* content store: number of physical writes per path
    pc,                   \* per worker: where it is in its task
    call,                 \* per worker: arguments, locals and result of its task
    calls,                \* number of tasks started so far
    serial,               \* TRUE when tasks are run one after the other
    parsed,               \* what parse_filing yields for each filing: its documents
    store_raw,            \* the store_raw flag the tasks are run with
    store_text,           \* the store_text flag the tasks are run with
    runs,                 \* number of finished process_filing runs per file path
    pfiPc,                \* process_filing_index: where it is
    index_data,           \* the rows list_index() yields (filing_index_data)
    index_rows,           \* process_filing_index: the index rows still to iterate
    form_type_list,       \* process_filing_index: the form type whitelist, or None
    filing_path,          \* process_filing_index local
    filing_buffer,        \* process_filing_index local
    bad_record_count,     \* process_filing_index local
    missed,               \* paths for which get_buffer returned a miss in this run
    errored,              \* paths create_filing_error has been called for, in any run
    lpPc,                 \* list_path: where the call is
    remote_path,          \* list_path: the path to list
    listing,              \* list_path: what the HTML of the page at the path holds
    lpResult,             \* list_path: what the call returned or raised
    feedPc,               \* feed reconciler: where the call is
    feedTask,             \* feed reconciler: which of the two functions runs
    upsert,               \* process_filingindex_year: the upsert argument
    feed,                 \* feed reconciler: the feed records still to go through
    filing_objects,       \* feed reconciler: the batch collected for bulk_create
    filing_index,         \* the FilingIndex rows of the catalog
    form_index,           \* the FormIndex rows of the catalog
    feedError,            \* feed reconciler: the exception written to stderr
    pfiResult             \* how process_filing_index ended

gbVars == <<gbPc, complete, failures, file_buffer, last_modified_date,
            status_code, attempts, sleeps, gbResult>>
cfgVars == <<HTTP_FAIL_SLEEP, HTTP_SLEEP_DEFAULT>>
catVars == <<filings, documents, companies>>
storeVars == <<store, writes>>
workerVars == <<pc, call, calls, serial, parsed, store_raw, store_text, runs>>
pfiVars == <<pfiPc, index_data, index_rows, form_type_list, filing_path, filing_buffer, bad_record_count, missed, errored,
            pfiResult>>
lpVars == <<lpPc, remote_path, listing, lpResult>>
feedVars == <<feedPc, feedTask, upsert, feed, filing_objects, filing_index, form_index,
             feedError>>
vars == <<cfgVars, gbVars, catVars, storeVars, workerVars, pfiVars, lpVars, feedVars>>

\* ------------------------------------------------------------------------
\* clients/openedgar.py : get_buffer
\* ------------------------------------------------------------------------
Returned(buf, lmd) == [kind |-> "return", file_buffer |-> buf, last_modified_date |-> lmd,
                       type |-> "", msg |-> ""]
Raised(type, msg) == [kind |-> "raise", file_buffer |-> None, last_modified_date |-> None,
                      type |-> type, msg |-> msg]
NoResult == [kind |-> "none", file_buffer |-> None, last_modified_date |-> None,
             type |-> "", msg |-> ""]

\* b"..." in file_buffer
Contains(buf, marker) == marker \in buf.markers

\* the guard of the except branch: failures < len(HTTP_FAIL_SLEEP)
CanRetry_offByOne(f) == f + 1 < Len(HTTP_FAIL_SLEEP)
CanRetry(f) == f < Len(HTTP_FAIL_SLEEP)

\* the if / elif chain after the loop: the error raised for a body, or None
PoisonCheck_notFoundFirst(buf) ==
    IF Contains(buf, NOTFOUND_MARKER) THEN Raised("RuntimeError", NOTFOUND_MESSAGE)
    ELSE IF Contains(buf, RATE_MARKER) THEN Raised("RuntimeError", RATE_MESSAGE)
    ELSE IF Contains(buf, DENIED_MARKER) THEN Raised("RuntimeError", DENIED_MESSAGE)
    ELSE None
PoisonCheck_sameMessage(buf) ==
    IF Contains(buf, RATE_MARKER) THEN Raised("RuntimeError", RATE_MESSAGE)
    ELSE IF Contains(buf, NOTFOUND_MARKER) THEN Raised("RuntimeError", RATE_MESSAGE)
    ELSE IF Contains(buf, DENIED_MARKER) THEN Raised("RuntimeError", DENIED_MESSAGE)
    ELSE None
PoisonCheck(buf) ==
    IF Contains(buf, RATE_MARKER) THEN Raised("RuntimeError", RATE_MESSAGE)
    ELSE IF Contains(buf, NOTFOUND_MARKER) THEN Raised("RuntimeError", NOTFOUND_MESSAGE)
    ELSE IF Contains(buf, DENIED_MARKER) THEN Raised("RuntimeError", DENIED_MESSAGE)
    ELSE None

\* entry of get_buffer: the locals before the loop
GetBufferEnter ==
    /\ gbPc' = "loop"
    /\ complete' = FALSE
    /\ failures' = 0
    /\ file_buffer' = None
    /\ last_modified_date' = None
    /\ status_code' = 0
    /\ attempts' = 0
    /\ sleeps' = <<>>
    /\ gbResult' = NoResult

\* a caller (list_path, a task) calls get_buffer
GetBufferCall ==
    /\ gbPc \in {"idle", "returned", "raised"}
    /\ GetBufferEnter
    /\ UNCHANGED <<cfgVars, lpVars, feedVars, catVars, storeVars, workerVars, pfiVars>>

\* one loop iteration whose request completes: the try block
GetBufferAttemptCompletes_retriesNon200 ==
    /\ gbPc = "loop"
    /\ ~complete
    /\ \E status \in StatusCodes, hdr \in LastModifiedHeaders, body \in Bodies :
         /\ attempts' = attempts + 1
         /\ status_code' = status
         /\ last_modified_date' = IF hdr = "valid" THEN [tag |-> "date"] ELSE last_modified_date
         /\ file_buffer' = body
         /\ complete' = (status = 200)
         /\ gbPc' = IF status = 200 THEN "check" ELSE "loop"
         /\ sleeps' = IF HTTP_SLEEP_DEFAULT > 0
                        THEN Append(sleeps, [kind |-> "default", secs |-> HTTP_SLEEP_DEFAULT])
                        ELSE sleeps
    /\ UNCHANGED <<failures, gbResult, cfgVars, lpVars, feedVars, catVars, storeVars, workerVars, pfiVars>>
GetBufferAttemptCompletes_sleepsOnFirstTryOnly ==
    /\ gbPc = "loop"
    /\ ~complete
    /\ \E status \in StatusCodes, hdr \in LastModifiedHeaders, body \in Bodies :
         /\ attempts' = attempts + 1
         /\ status_code' = status
         /\ last_modified_date' = IF hdr = "valid" THEN [tag |-> "date"] ELSE last_modified_date
         /\ file_buffer' = body
         /\ complete' = TRUE
         /\ sleeps' = IF HTTP_SLEEP_DEFAULT > 0 /\ failures = 0
                        THEN Append(sleeps, [kind |-> "default", secs |-> HTTP_SLEEP_DEFAULT])
                        ELSE sleeps
    /\ gbPc' = "check"
    /\ UNCHANGED <<failures, gbResult, cfgVars, lpVars, feedVars, catVars, storeVars, workerVars, pfiVars>>
GetBufferAttemptCompletes ==
    /\ gbPc = "loop"
    /\ ~complete
    /\ \E status \in StatusCodes, hdr \in LastModifiedHeaders, body \in Bodies :
         /\ attempts' = attempts + 1
         /\ status_code' = status
         /\ last_modified_date' = IF hdr = "valid" THEN [tag |-> "date"] ELSE last_modified_date
         /\ file_buffer' = body
         /\ complete' = TRUE
         /\ sleeps' = IF HTTP_SLEEP_DEFAULT > 0
                        THEN Append(sleeps, [kind |-> "default", secs |-> HTTP_SLEEP_DEFAULT])
                        ELSE sleeps
    /\ gbPc' = "check"
    /\ UNCHANGED <<failures, gbResult, cfgVars, lpVars, feedVars, catVars, storeVars, workerVars, pfiVars>>

\* one loop iteration whose request raises: the except block
GetBufferAttemptFails_firstDelayAgain ==
    /\ gbPc = "loop"
    /\ ~complete
    /\ attempts' = attempts + 1
    /\ IF CanRetry(failures)
         THEN /\ sleeps' = Append(sleeps, [kind |-> "backoff", secs |-> HTTP_FAIL_SLEEP[1]])
              /\ failures' = failures + 1
              /\ UNCHANGED <<gbPc, gbResult>>
         ELSE /\ gbPc' = "returned"
              /\ gbResult' = Returned(file_buffer, last_modified_date)
              /\ UNCHANGED <<sleeps, failures>>
    /\ UNCHANGED <<complete, file_buffer, last_modified_date, status_code,
                   cfgVars, lpVars, feedVars, catVars, storeVars, workerVars, pfiVars>>
GetBufferAttemptFails ==
    /\ gbPc = "loop"
    /\ ~complete
    /\ attempts' = attempts + 1
    /\ IF CanRetry(failures)
         THEN /\ sleeps' = Append(sleeps, [kind |-> "backoff", secs |-> HTTP_FAIL_SLEEP[failures + 1]])
              /\ failures' = failures + 1
              /\ UNCHANGED <<gbPc, gbResult>>
         ELSE /\ gbPc' = "returned"
              /\ gbResult' = Returned(file_buffer, last_modified_date)
              /\ UNCHANGED <<sleeps, failures>>
    /\ UNCHANGED <<complete, file_buffer, last_modified_date, status_code,
                   cfgVars, lpVars, feedVars, catVars, storeVars, workerVars, pfiVars>>

\* after the loop: the marker checks and the final return
GetBufferCheck_retryPoison ==
    /\ gbPc = "check"
    /\ IF PoisonCheck(file_buffer) # None /\ CanRetry(failures)
         THEN /\ gbPc' = "loop"
              /\ complete' = FALSE
              /\ failures' = failures + 1
              /\ sleeps' = Append(sleeps, [kind |-> "backoff", secs |-> HTTP_FAIL_SLEEP[failures + 1]])
              /\ UNCHANGED gbResult
         ELSE /\ gbPc' = IF PoisonCheck(file_buffer) # None THEN "raised" ELSE "returned"
              /\ gbResult' = IF PoisonCheck(file_buffer) # None THEN PoisonCheck(file_buffer)
                             ELSE Returned(file_buffer, last_modified_date)
              /\ UNCHANGED <<complete, failures, sleeps>>
    /\ UNCHANGED <<file_buffer, last_modified_date, status_code, attempts,
                   cfgVars, lpVars, feedVars, catVars, storeVars, workerVars, pfiVars>>
GetBufferCheck ==
    /\ gbPc = "check"
    /\ IF PoisonCheck(file_buffer) # None
         THEN /\ gbPc' = "raised"
              /\ gbResult' = PoisonCheck(file_buffer)
         ELSE /\ gbPc' = "returned"
              /\ gbResult' = Returned(file_buffer, last_modified_date)
    /\ UNCHANGED <<complete, failures, file_buffer, last_modified_date,
                   status_code, attempts, sleeps, cfgVars, lpVars, feedVars, catVars, storeVars, workerVars, pfiVars>>


\* ------------------------------------------------------------------------
\* Catalog (models.py) and content store (clients/local.py, clients/s3.py)
\* ------------------------------------------------------------------------
\* outcome of a call: a returned value or a raised exception
Ret(v) == [kind |-> "return", value |-> v, type |-> ""]
Exc(t) == [kind |-> "raise", value |-> None, type |-> t]
Pending == [kind |-> "none", value |-> None, type |-> ""]
\* a Python list, as opposed to None
List(items) == [tag |-> "list", items |-> items]

\* the path of a raw filing on EDGAR and in the content store
FilingPath(acc) == <<"edgar", acc>>
FilingPaths == {FilingPath(acc) : acc \in Accessions}
\* pathlib.Path(S3_DOCUMENT_PATH, "raw", sha1) and pathlib.Path(S3_DOCUMENT_PATH, "text", sha1)
RawPath_textNamespace(sha1) == <<"text", sha1>>
RawPath(sha1) == <<"raw", sha1>>
TextPath(sha1) == <<"text", sha1>>
AllPaths == FilingPaths \cup {RawPath(h) : h \in Shas} \cup {TextPath(h) : h \in Shas}

\* the columns of the Filing model
FilingFields == {"form_type", "accession_number", "date_filed", "cik", "company", "sha1",
                 "path", "document_count", "processed_document_count", "is_processed",
                 "is_error", "acceptance_datetime", "date_downloaded", "document_url",
                 "homepage_url", "text_url"}

\* the model classes tasks.py imports from openedgar.models
TasksModuleNames == {"Company", "CompanyFact", "CompanyInfo", "FactIndex", "FilingIndex",
                     "Filing", "FilingDocument", "FormIndex", "SearchQuery",
                     "SearchQueryTerm", "SearchQueryResult"}

\* a Filing row (the columns the tasks read or write)
FilingRow(acc, path, processed, error, count) ==
    [accession_number |-> acc, path |-> path, is_processed |-> processed,
     is_error |-> error, document_count |-> count]

\* Filing.objects.get(<field>=value)
ObjectsGet(rows, field, value) ==
    IF field \notin FilingFields THEN Exc("FieldError")
    ELSE LET found == {r \in rows : r[field] = value}
         IN  IF found = {} THEN Exc("DoesNotExist")
             ELSE IF Cardinality(found) > 1 THEN Exc("MultipleObjectsReturned")
             ELSE Ret(CHOOSE r \in found : TRUE)

\* which handler of a try statement takes an exception: the clauses are
\* evaluated in order, and evaluating "<Name>.<Exception>" raises NameError
\* when <Name> is not bound in the module.  0 = no handler matches.
RECURSIVE ExceptClause(_, _, _)
ExceptClause(exc, clauses, k) ==
    IF k > Len(clauses) THEN [handler |-> 0, exc |-> exc]
    ELSE IF clauses[k].name \notin TasksModuleNames THEN [handler |-> 0, exc |-> Exc("NameError")]
    ELSE IF clauses[k].exception = exc.type THEN [handler |-> k, exc |-> exc]
    ELSE ExceptClause(exc, clauses, k + 1)

\* client.path_exists(path)
PathExists(path) == path \in store

\* client.put_buffer(path, buffer) when the write succeeds
PutBuffer(path) ==
    /\ store' = store \cup {path}
    /\ writes' = [writes EXCEPT ![path] = @ + 1]

\* ------------------------------------------------------------------------
\* parsers/openedgar.py : the document descriptors of a parsed filing
\* ------------------------------------------------------------------------
\* the derived text of a sub-document depends on its bytes alone
ContentText(sha1) == IF sha1 = "a" THEN [tag |-> "str"] ELSE None
\* the bytes of a sub-document in the raw filing, between and with its
\* boundary markers, by content hash
Section(sha1) ==
    IF sha1 = EMPTY_SHA1 THEN <<"<DOCUMENT>", "</DOCUMENT>">>
    ELSE IF sha1 = "a" THEN <<"<DOCUMENT>", "x", "</DOCUMENT>">>
    ELSE <<"<DOCUMENT>", "y", "</DOCUMENT>">>
\* the digest of a byte sequence; "other" stands for every digest that is the
\* hash of no sub-document
Digest(bytes) ==
    IF \E sha1 \in Shas : Section(sha1) = bytes
      THEN CHOOSE sha1 \in Shas : Section(sha1) = bytes
      ELSE "other"
\* the raw bytes of a filing: its header, then its sub-documents in order
RECURSIVE RawBytes(_)
RawBytes(shas) ==
    IF shas = <<>> THEN <<"<SEC-HEADER>">>
    ELSE RawBytes(SubSeq(shas, 1, Len(shas) - 1)) \o Section(shas[Len(shas)])
\* raw_bytes[start_pos:end_pos]
Slice(bytes, start_pos, end_pos) == SubSeq(bytes, start_pos + 1, end_pos)
\* the descriptor of the i-th sub-document: its offsets are those of its
\* section in the raw bytes and its hash is the digest of that slice
Descriptor(shas, i) ==
    LET start_pos == Len(RawBytes(SubSeq(shas, 1, i - 1)))
        end_pos == Len(RawBytes(SubSeq(shas, 1, i)))
        sha1 == Digest(Slice(RawBytes(shas), start_pos, end_pos))
    IN  [sequence |-> i, sha1 |-> sha1,
         start_pos |-> start_pos, end_pos |-> end_pos,
         content_len |-> Len(Section(sha1)) - 2,
         content_text |-> ContentText(sha1)]
ParsedDocuments(shas) == [i \in 1..Len(shas) |-> Descriptor(shas, i)]
DocLists(n) == {ParsedDocuments(shas) : shas \in SeqsUpTo(Shas, n)}

\* the registrant identifier (CIK) of the filings, and its Company row
Registrant == [tag |-> "str"]
CompanyRow(cik) == [cik |-> cik]
\* the filings whose header gives no registrant identifier
NoCikAccessions == {"f2"}
\* the number of documents a filing's header declares, whatever the number
\* of documents its body holds
DeclaredDocumentCount == 1
\* what parse_filing yields for the raw filing stored at a path
FilingData(path) ==
    [accession_number |-> path[2],
     cik |-> IF path[2] \in NoCikAccessions THEN None ELSE Registrant,
     document_count |-> DeclaredDocumentCount,
     documents |-> parsed[path[2]]]

\* ------------------------------------------------------------------------
\* tasks.py : create_filing_documents
\* ------------------------------------------------------------------------
NoCall == [task |-> "none", filing |-> "", file_path |-> <<>>, filing_buffer |-> None,
           docs |-> <<>>, i |-> 0, result |-> Pending]

\* the FilingDocument built for one descriptor
FilingDoc_positionsSwapped(filing, document) ==
    [filing |-> filing, sequence |-> document.sequence, sha1 |-> document.sha1,
     start_pos |-> document.end_pos, end_pos |-> document.start_pos,
     is_processed |-> TRUE, is_error |-> document.content_len > 0]
FilingDoc(filing, document) ==
    [filing |-> filing, sequence |-> document.sequence, sha1 |-> document.sha1,
     start_pos |-> document.start_pos, end_pos |-> document.end_pos,
     is_processed |-> TRUE, is_error |-> document.content_len > 0]
DocumentRecords(filing, docs) == {FilingDoc(filing, docs[i]) : i \in 1..Len(docs)}

\* the two upload conditions
UploadsRaw_ignoresFlag(document) == document.content_len > 0
UploadsRaw(document) == store_raw /\ document.content_len > 0
UploadsText(document) == store_text /\ document.content_text # None

\* where the loop stands next, from the head of the iteration for document i:
\* the first content-store call still to make, or the bulk insert
RECURSIVE FromDocument(_, _)
FromDocument(c, i) ==
    IF i > Len(c.docs) THEN <<"cfd_bulk_create", i>>
    ELSE IF UploadsRaw(c.docs[i]) THEN <<"cfd_raw_exists", i>>
    ELSE IF UploadsText(c.docs[i]) THEN <<"cfd_text_exists", i>>
    ELSE FromDocument(c, i + 1)
\* ... and from the end of the raw upload of document i
AfterRaw(c, i) ==
    IF UploadsText(c.docs[i]) THEN <<"cfd_text_exists", i>>
    ELSE FromDocument(c, i + 1)

Goto(w, position) ==
    /\ pc' = [pc EXCEPT ![w] = position[1]]
    /\ call' = [call EXCEPT ![w].i = position[2]]
Finish(w, result) ==
    /\ pc' = [pc EXCEPT ![w] = "done"]
    /\ call' = [call EXCEPT ![w].result = result]

\* the worker that runs the tasks when they are run one after the other
SerialWorker == "w1"

\* when a task may start: run serially, one worker takes task after task;
\* run concurrently, every worker takes one task, and the worker that takes
\* the first one is called w1
MayStart(w) ==
    /\ calls < MaxCalls
    /\ IF serial THEN w = SerialWorker /\ pc[w] \in {"idle", "done"}
                 ELSE pc[w] = "idle" /\ (w # SerialWorker => pc[SerialWorker] # "idle")

\* create_filing_documents(client, documents, filing, store_raw, store_text),
\* called with a Filing row, the documents parsed from that filing and the
\* flags of the run
CfdCall(w) ==
    /\ MayStart(w)
    /\ \E f \in filings :
         LET c == [NoCall EXCEPT !.task = "cfd", !.filing = f.accession_number,
                                 !.docs = parsed[f.accession_number]]
             position == FromDocument(c, 1)
         IN  /\ pc' = [pc EXCEPT ![w] = position[1]]
             /\ call' = [call EXCEPT ![w] = [c EXCEPT !.i = position[2]]]
    /\ calls' = calls + 1
    /\ UNCHANGED <<serial, parsed, store_raw, store_text, runs, cfgVars, lpVars, feedVars, gbVars, catVars, storeVars, pfiVars>>

\* if not client.path_exists(raw_path)
CfdRawPathExists_noCheck(w) ==
    /\ pc[w] = "cfd_raw_exists"
    /\ Goto(w, <<"cfd_raw_put", call[w].i>>)
    /\ UNCHANGED <<calls, serial, parsed, store_raw, store_text, runs, cfgVars, lpVars, feedVars, gbVars, catVars, storeVars, pfiVars>>
CfdRawPathExists(w) ==
    /\ pc[w] = "cfd_raw_exists"
    /\ IF PathExists(RawPath(call[w].docs[call[w].i].sha1))
         THEN Goto(w, AfterRaw(call[w], call[w].i))
         ELSE Goto(w, <<"cfd_raw_put", call[w].i>>)
    /\ UNCHANGED <<calls, serial, parsed, store_raw, store_text, runs, cfgVars, lpVars, feedVars, gbVars, catVars, storeVars, pfiVars>>

\* client.put_buffer(raw_path, document["content"]): stores the blob or raises
CfdRawPut_failureWipesCatalog(w) ==
    /\ pc[w] = "cfd_raw_put"
    /\ \/ /\ PutBuffer(RawPath(call[w].docs[call[w].i].sha1))
          /\ Goto(w, AfterRaw(call[w], call[w].i))
          /\ UNCHANGED catVars
       \/ /\ Finish(w, Exc("IOError"))
          /\ documents' = {}
          /\ UNCHANGED <<filings, companies, storeVars>>
    /\ UNCHANGED <<calls, serial, parsed, store_raw, store_text, runs, cfgVars, lpVars, feedVars, gbVars, pfiVars>>
CfdRawPut(w) ==
    /\ pc[w] = "cfd_raw_put"
    /\ \/ /\ PutBuffer(RawPath(call[w].docs[call[w].i].sha1))
          /\ Goto(w, AfterRaw(call[w], call[w].i))
       \/ /\ Finish(w, Exc("IOError"))
          /\ UNCHANGED storeVars
    /\ UNCHANGED <<calls, serial, parsed, store_raw, store_text, runs, cfgVars, lpVars, feedVars, gbVars, catVars, pfiVars>>

\* if not client.path_exists(raw_path)   (the text path)
CfdTextPathExists_noCheck(w) ==
    /\ pc[w] = "cfd_text_exists"
    /\ Goto(w, <<"cfd_text_put", call[w].i>>)
    /\ UNCHANGED <<calls, serial, parsed, store_raw, store_text, runs, cfgVars, lpVars, feedVars, gbVars, catVars, storeVars, pfiVars>>
CfdTextPathExists(w) ==
    /\ pc[w] = "cfd_text_exists"
    /\ IF PathExists(TextPath(call[w].docs[call[w].i].sha1))
         THEN Goto(w, FromDocument(call[w], call[w].i + 1))
         ELSE Goto(w, <<"cfd_text_put", call[w].i>>)
    /\ UNCHANGED <<calls, serial, parsed, store_raw, store_text, runs, cfgVars, lpVars, feedVars, gbVars, catVars, storeVars, pfiVars>>

\* client.put_buffer(raw_path, document["content_text"], write_bytes=False)
CfdTextPut(w) ==
    /\ pc[w] = "cfd_text_put"
    /\ \/ /\ PutBuffer(TextPath(call[w].docs[call[w].i].sha1))
          /\ Goto(w, FromDocument(call[w], call[w].i + 1))
       \/ /\ Finish(w, Exc("IOError"))
          /\ UNCHANGED storeVars
    /\ UNCHANGED <<calls, serial, parsed, store_raw, store_text, runs, cfgVars, lpVars, feedVars, gbVars, catVars, pfiVars>>

\* FilingDocument.objects.bulk_create(document_records): one atomic insert,
\* rejected as a whole when a (filing, sequence) pair is already taken
CfdBulkCreate_rowByRow(w) ==
    /\ pc[w] = "cfd_bulk_create"
    /\ LET records == DocumentRecords(call[w].filing, call[w].docs)
       IN  \/ /\ documents' = documents \cup records
              /\ Finish(w, Ret(Len(call[w].docs)))
           \/ /\ \E some \in SUBSET records : documents' = documents \cup some
              /\ Finish(w, Exc("IntegrityError"))
    /\ UNCHANGED <<filings, companies, calls, serial, parsed, store_raw, store_text, runs, cfgVars, lpVars, feedVars, gbVars, storeVars, pfiVars>>
CfdBulkCreate_noUniqueCheck(w) ==
    /\ pc[w] = "cfd_bulk_create"
    /\ documents' = documents \cup DocumentRecords(call[w].filing, call[w].docs)
    /\ Finish(w, Ret(Len(call[w].docs)))
    /\ UNCHANGED <<filings, companies, calls, serial, parsed, store_raw, store_text, runs, cfgVars, lpVars, feedVars, gbVars, storeVars, pfiVars>>
CfdBulkCreate(w) ==
    /\ pc[w] = "cfd_bulk_create"
    /\ LET records == DocumentRecords(call[w].filing, call[w].docs)
           taken == \E r \in records, d \in documents :
                       d.filing = r.filing /\ d.sequence = r.sequence
       IN  IF taken
             THEN /\ Finish(w, Exc("IntegrityError"))
                  /\ UNCHANGED documents
             ELSE /\ documents' = documents \cup records
                  /\ Finish(w, Ret(Len(call[w].docs)))
    /\ UNCHANGED <<filings, companies, calls, serial, parsed, store_raw, store_text, runs, cfgVars, lpVars, feedVars, gbVars, storeVars, pfiVars>>

\* ------------------------------------------------------------------------
\* tasks.py : process_filing
\* ------------------------------------------------------------------------
\* the check for an existing record: what the function does after it.
\* "return" = returns None, "continue" = goes on to read and parse the buffer,
\* "raise" = an exception leaves process_filing.
ExistingRecordCheck(rows, file_path) ==
    LET got == ObjectsGet(rows, "s3_path", file_path)
        clause == ExceptClause(got,
                      <<[name |-> "CompanyFiling", exception |-> "DoesNotExist"],
                        [name |-> "CompanyFiling", exception |-> "MultipleObjectsReturned"]>>, 1)
    IN  IF got.kind = "return" THEN [next |-> "return", result |-> Ret(None)]
        ELSE IF clause.handler = 1 THEN [next |-> "continue", result |-> Pending]
        ELSE IF clause.handler = 2 THEN [next |-> "return", result |-> Ret(None)]
        ELSE [next |-> "raise", result |-> clause.exc]

\* process_filing(client, file_path, filing_buffer, store_raw, store_text)
ProcessFilingCall(w) ==
    /\ MayStart(w)
    /\ \E path \in FilingPaths, buf \in {None, Bytes({})} :
         /\ call' = [call EXCEPT ![w] = [NoCall EXCEPT !.task = "pf", !.file_path = path,
                                         !.filing_buffer = buf]]
         /\ pc' = [pc EXCEPT ![w] = "pf_existing"]
    /\ calls' = calls + 1
    /\ UNCHANGED <<serial, parsed, store_raw, store_text, runs, cfgVars, lpVars, feedVars, gbVars, catVars, storeVars, pfiVars>>

\* try: filing = Filing.objects.get(s3_path=file_path) ... except ...
ProcessFilingExisting(w) ==
    /\ pc[w] = "pf_existing"
    /\ LET check == ExistingRecordCheck(filings, call[w].file_path)
       IN  IF check.next = "continue"
             THEN /\ pc' = [pc EXCEPT ![w] = "pf_get_buffer"]
                  /\ UNCHANGED <<call, runs>>
             ELSE /\ Finish(w, check.result)
                  /\ runs' = [runs EXCEPT ![call[w].file_path] = @ + 1]
    /\ UNCHANGED <<calls, serial, parsed, store_raw, store_text, cfgVars, lpVars, feedVars, gbVars, catVars, storeVars, pfiVars>>

\* ------------------------------------------------------------------------
\* tasks.py : create_filing_error
\* ------------------------------------------------------------------------
\* filing = CompanyFiling() ... filing.save(): the outcome and the catalog after
CreateFilingError(catalog, path) ==
    IF "CompanyFiling" \notin TasksModuleNames
      THEN [result |-> Exc("NameError"), filings |-> catalog]
      ELSE [result |-> Ret(TRUE),
            filings |-> catalog \cup {FilingRow("", path, FALSE, TRUE, 0)}]

\* ------------------------------------------------------------------------
\* tasks.py : process_filing_index
\* ------------------------------------------------------------------------
\* an exception leaves process_filing_index
PfiRaise(exc) ==
    /\ pfiPc' = "done"
    /\ pfiResult' = exc
\* continue: on to the next row of the index
PfiContinue ==
    /\ pfiPc' = "row"
    /\ index_rows' = Tail(index_rows)

\* the rows of an index: the File Name of a row is a prefix and the rest of
\* the name, which tells the accession of the filing
IndexRow(prefix, acc, form) == [prefix |-> prefix, rest |-> acc, form_type |-> form]
IndexRows == {IndexRow("data/", "f1", "10-K"), IndexRow("edgar/", "f2", "10-K"),
              IndexRow("Archives/", "f2", "8-K")}
\* the values of the form_type_list parameter
FormTypeLists == {None, List({"10-K"})}
\* the form type check at the head of the loop body
Whitelisted_everyRow(row, whitelist) == TRUE
Whitelisted(row, whitelist) ==
    IF whitelist # None THEN row.form_type \in whitelist.items ELSE TRUE
\* "Cleanup path": the if / elif on the prefix of the File Name assigns
\* filing_path; with any other prefix the local keeps the value it had, and
\* it is unbound (<<>>) until its first assignment
CleanupPath(row, path) ==
    IF row.prefix = "data/" THEN FilingPath(row.rest)
    ELSE IF row.prefix = "edgar/" THEN FilingPath(row.rest)
    ELSE path

\* process_filing_index(client_type, file_path, ...) over the rows of an index
PfiCall ==
    /\ pfiPc \in {"idle", "done"}
    /\ calls < MaxCalls
    /\ calls' = calls + 1
    /\ index_rows' = index_data
    /\ form_type_list' \in FormTypeLists
    /\ UNCHANGED index_data
    /\ pfiPc' = "row"
    /\ filing_path' = <<>>
    /\ filing_buffer' = None
    /\ bad_record_count' = 0
    /\ missed' = {}
    /\ UNCHANGED errored
    /\ pfiResult' = Pending
    /\ UNCHANGED <<pc, call, serial, parsed, store_raw, store_text, runs, cfgVars, lpVars, feedVars, gbVars, catVars, storeVars>>

\* head of the loop: the path of the row and the check for its Filing record
PfiRow ==
    /\ pfiPc = "row"
    /\ IF index_rows = <<>>
         THEN /\ pfiPc' = "index_record"
              /\ UNCHANGED <<index_rows, index_data, form_type_list, filing_path, pfiResult>>
         ELSE LET path == CleanupPath(Head(index_rows), filing_path)
                  got == ObjectsGet(filings, "path", path)
                  clause == ExceptClause(got,
                               <<[name |-> "Filing", exception |-> "MultipleObjectsReturned"],
                                 [name |-> "Filing", exception |-> "DoesNotExist"]>>, 1)
              IN  IF ~Whitelisted(Head(index_rows), form_type_list)
                    THEN PfiContinue /\ UNCHANGED <<filing_path, pfiResult>>
                    ELSE IF path = <<>>
                      THEN /\ PfiRaise(Exc("UnboundLocalError"))
                           /\ UNCHANGED <<index_rows, filing_path>>
                      ELSE /\ filing_path' = path
                           /\ IF got.kind = "return" \/ clause.handler = 1
                                THEN PfiContinue /\ UNCHANGED pfiResult
                                ELSE IF clause.handler = 2
                                  THEN pfiPc' = "path_exists" /\ UNCHANGED <<index_rows, pfiResult>>
                                  ELSE PfiRaise(clause.exc) /\ UNCHANGED index_rows
    /\ UNCHANGED <<index_data, form_type_list, filing_buffer, bad_record_count, missed, errored,
                   cfgVars, lpVars, feedVars, gbVars, catVars, storeVars, workerVars>>

\* if not client.path_exists(filing_path): download, else read the stored copy
PfiPathExists_alwaysDownload ==
    /\ pfiPc = "path_exists"
    /\ GetBufferEnter
    /\ pfiPc' = "get_buffer"
    /\ UNCHANGED filing_buffer
    /\ UNCHANGED <<index_rows, index_data, form_type_list, filing_path, bad_record_count, missed, errored, pfiResult,
                   cfgVars, lpVars, feedVars, catVars, storeVars, workerVars>>
PfiPathExists ==
    /\ pfiPc = "path_exists"
    /\ IF PathExists(filing_path)
         THEN /\ filing_buffer' = Bytes({})
              /\ pfiPc' = "process_filing"
              /\ UNCHANGED gbVars
         ELSE /\ GetBufferEnter
              /\ pfiPc' = "get_buffer"
              /\ UNCHANGED filing_buffer
    /\ UNCHANGED <<index_rows, index_data, form_type_list, filing_path, bad_record_count, missed, errored, pfiResult,
                   cfgVars, lpVars, feedVars, catVars, storeVars, workerVars>>

\* get_buffer has ended: except RuntimeError, or the buffer it returned
PfiGetBufferDone ==
    /\ pfiPc = "get_buffer"
    /\ gbPc \in {"returned", "raised"}
    /\ IF gbResult.kind = "raise"
         THEN LET cfe == CreateFilingError(filings, filing_path)
              IN  /\ bad_record_count' = bad_record_count + 1
                  /\ filings' = cfe.filings
                  /\ IF cfe.result.kind = "raise"
                       THEN PfiRaise(cfe.result) /\ UNCHANGED index_rows
                       ELSE PfiContinue /\ UNCHANGED pfiResult
                  /\ errored' = errored \cup {filing_path}
                  /\ UNCHANGED <<filing_buffer, missed>>
         ELSE /\ filing_buffer' = gbResult.file_buffer
              /\ missed' = IF gbResult.file_buffer = None
                             THEN missed \cup {filing_path} ELSE missed
              /\ pfiPc' = "put_buffer"
              /\ UNCHANGED <<index_rows, bad_record_count, errored, pfiResult, filings>>
    \* the frame of the call is gone: its result is taken and its locals dropped
    /\ complete' = FALSE
    /\ failures' = 0
    /\ file_buffer' = None
    /\ last_modified_date' = None
    /\ status_code' = 0
    /\ gbResult' = NoResult
    /\ UNCHANGED <<gbPc, attempts, sleeps>>
    /\ UNCHANGED <<index_data, form_type_list, filing_path, documents, companies, cfgVars, lpVars, feedVars, storeVars, workerVars>>

\* client.put_buffer(filing_path, filing_buffer): stores the bytes or raises
PfiPutBuffer ==
    /\ pfiPc = "put_buffer"
    /\ \/ /\ PutBuffer(filing_path)
          /\ pfiPc' = "process_filing"
          /\ UNCHANGED pfiResult
       \/ /\ PfiRaise(Exc("IOError"))
          /\ UNCHANGED storeVars
    /\ UNCHANGED <<index_rows, index_data, form_type_list, filing_path, filing_buffer, bad_record_count, missed, errored,
                   cfgVars, lpVars, feedVars, gbVars, catVars, workerVars>>

\* filing_result = process_filing(...); if it is None, create_filing_error
PfiProcessFiling ==
    /\ pfiPc = "process_filing"
    /\ LET check == ExistingRecordCheck(filings, filing_path)
           cfe == CreateFilingError(filings, filing_path)
       IN  IF check.next = "raise"
             THEN /\ PfiRaise(check.result)
                  /\ runs' = [runs EXCEPT ![filing_path] = @ + 1]
                  /\ UNCHANGED <<index_rows, bad_record_count, errored, filings>>
             ELSE IF check.next = "return"
               THEN /\ bad_record_count' = bad_record_count + 1
                    /\ errored' = errored \cup {filing_path}
                    /\ runs' = [runs EXCEPT ![filing_path] = @ + 1]
                    /\ filings' = cfe.filings
                    /\ IF cfe.result.kind = "raise"
                         THEN PfiRaise(cfe.result) /\ UNCHANGED index_rows
                         ELSE PfiContinue /\ UNCHANGED pfiResult
               ELSE /\ pfiPc' = "pf_get_buffer"
                    /\ UNCHANGED <<index_rows, bad_record_count, errored, filings, runs, pfiResult>>
    /\ UNCHANGED <<index_data, form_type_list, filing_path, filing_buffer, missed, documents, companies, pc, call, calls, serial, parsed, store_raw, store_text,
                   cfgVars, lpVars, feedVars, gbVars, storeVars>>

\* after the loop: the index record, Filing.objects.get(edgar_url=edgar_url)
PfiIndexRecord ==
    /\ pfiPc = "index_record"
    /\ LET got == ObjectsGet(filings, "edgar_url", <<>>)
           clause == ExceptClause(got, <<[name |-> "Filing", exception |-> "DoesNotExist"]>>, 1)
       IN  IF got.kind = "return" \/ clause.handler = 1
             THEN pfiResult' = Ret(None)
             ELSE pfiResult' = clause.exc
    /\ pfiPc' = "done"
    /\ UNCHANGED <<index_rows, index_data, form_type_list, filing_path, filing_buffer, bad_record_count, missed, errored,
                   cfgVars, lpVars, feedVars, gbVars, catVars, storeVars, workerVars>>

\* ------------------------------------------------------------------------
\* clients/openedgar.py : list_path
\* ------------------------------------------------------------------------
\* a path or href is a string, kept as its sequence of pieces: the separator
\* "/" and the names between separators
RemotePaths == {<<"/", "dir">>, <<"/", "dir", "/">>}
Hrefs == {<<"/", "x">>, <<"f.txt">>}
\* an anchor of the listing: whether it has an href attribute, the attribute,
\* and whether its text holds "Parent Directory"
Anchors ==
    [has_href : {TRUE}, href : Hrefs, parent : BOOLEAN]
        \cup [has_href : {FALSE}, href : {<<>>}, parent : BOOLEAN]
\* the page at the listed path: whether it has the element with id
\* "main-content", and the anchors inside it
Pages == [has_main : BOOLEAN, anchors : SeqsUpTo(Anchors, MaxLinks)]
NoPage == [has_main |-> FALSE, anchors |-> <<>>]

\* href.startswith("/")
StartsWithSlash(href) == Len(href) > 0 /\ href[1] = "/"
\* href.lstrip("/")
RECURSIVE LStrip(_)
LStrip(href) == IF StartsWithSlash(href) THEN LStrip(Tail(href)) ELSE href
\* "/".join(s for s in [remote_path, href.lstrip("/")])
JoinHref(path, href) == path \o <<"/">> \o LStrip(href)
\* the entry appended to good_url_list for one href
GoodUrl(path, href) == IF StartsWithSlash(href) THEN href ELSE JoinHref(path, href)
\* good_link_list: the anchors whose text does not hold "Parent Directory"
GoodLinkList_keepsParent(anchors) == anchors
GoodLinkList(anchors) == SelectSeq(anchors, LAMBDA l : ~l.parent)
\* the try block: a missing "main-content" element or a missing href attribute
\* raises KeyError, which is caught and answered with None
ParseListing_missingContainerEmpty(path, page) ==
    LET good == GoodLinkList(page.anchors)
    IN  IF ~page.has_main THEN Ret(List(<<>>))
        ELSE IF \E i \in 1..Len(good) : ~good[i].has_href THEN Ret(None)
        ELSE Ret(List([i \in 1..Len(good) |-> GoodUrl(path, good[i].href)]))
ParseListing(path, page) ==
    LET good == GoodLinkList(page.anchors)
    IN  IF ~page.has_main THEN Ret(None)
        ELSE IF \E i \in 1..Len(good) : ~good[i].has_href THEN Ret(None)
        ELSE Ret(List([i \in 1..Len(good) |-> GoodUrl(path, good[i].href)]))

\* list_path(remote_path): remote_buffer, _ = get_buffer(remote_path)
ListPathCall ==
    /\ lpPc \in {"idle", "done"}
    /\ lpPc' = "get_buffer"
    /\ lpResult' = Pending
    /\ GetBufferEnter
    /\ UNCHANGED <<remote_path, listing, feedVars, cfgVars, catVars, storeVars, workerVars, pfiVars>>

\* get_buffer has ended: its exception leaves list_path, a None buffer gives
\* [], and a buffer is parsed
ListPathParse ==
    /\ lpPc = "get_buffer"
    /\ gbPc \in {"returned", "raised"}
    /\ lpResult' = IF gbResult.kind = "raise" THEN Exc(gbResult.type)
                   ELSE IF gbResult.file_buffer = None THEN Ret(List(<<>>))
                   ELSE ParseListing(remote_path, listing)
    /\ lpPc' = "done"
    /\ UNCHANGED <<remote_path, listing, feedVars, cfgVars, gbVars, catVars, storeVars, workerVars, pfiVars>>

\* ------------------------------------------------------------------------
\* tasks.py : process_filings and process_filingindex_year
\* ------------------------------------------------------------------------
\* what a feed record says about its filing, apart from its accession number
\* (the company name stands for all of it)
FeedContents == {"v1", "v2"}
\* a record of the feed edgar.get_filings returns
FeedRecord(acc, content) ==
    [accession_number |-> acc, cik |-> Registrant, company |-> content, form |-> "10-K"]
FeedRecords == {FeedRecord(acc, content) : acc \in Accessions, content \in FeedContents}
Feeds == SeqsUpTo(FeedRecords, MaxFeed)
FeedTasks == {"process_filings", "process_filingindex_year"}

\* the FilingIndex object built from a feed record (f)
FilingIndexRow(filing) ==
    [accession_number |-> filing.accession_number, cik |-> filing.cik,
     company |-> filing.company, form_type |-> filing.form]
\* FilingIndex.objects.get(accession_number=...), None for DoesNotExist
StoredIndexRow(acc) ==
    IF \E r \in filing_index : r.accession_number = acc
      THEN CHOOSE r \in filing_index : r.accession_number = acc
      ELSE None
\* f != of: two objects of a model are equal when their primary keys are, and
\* accession_number is the primary key of FilingIndex and of Filing; an object
\* differs from None
ModelNe(f, of) == of = None \/ f.accession_number # of.accession_number

\* filing_index[~(filing_index['accession_number'].isin(accnos))]: without
\* upsert the records whose accession number is stored are left out (the
\* stored rows are rows of the year asked for)
NotStored(records) ==
    SelectSeq(records, LAMBDA filing :
        \A r \in filing_index : r.accession_number # filing.accession_number)
\* drop_duplicates(subset=['accession_number'], keep='last')
RECURSIVE DropDuplicates(_)
DropDuplicates(records) ==
    IF records = <<>> THEN <<>>
    ELSE IF \E i \in 2..Len(records) :
                records[i].accession_number = records[1].accession_number
           THEN DropDuplicates(Tail(records))
           ELSE <<records[1]>> \o DropDuplicates(Tail(records))

\* the call of one of the two functions on a feed: process_filings takes the
\* feed as it is; process_filingindex_year filters it, and runs no batch when
\* nothing is left
FeedCall ==
    /\ feedPc \in {"idle", "done"}
    /\ \E task \in FeedTasks, ups \in BOOLEAN, records \in Feeds :
         LET kept == IF task = "process_filings" THEN records
                     ELSE DropDuplicates(IF ups THEN records ELSE NotStored(records))
         IN  /\ feedTask' = task
             /\ upsert' = ups
             /\ feed' = kept
             /\ feedPc' = IF kept # <<>> THEN "record"
                          ELSE IF task = "process_filings" THEN "bulk_create" ELSE "done"
    /\ filing_objects' = <<>>
    /\ feedError' = ""
    /\ UNCHANGED <<filing_index, form_index, cfgVars, gbVars, catVars, storeVars, workerVars,
                   pfiVars, lpVars>>

\* one pass of the loop over the feed records. Both functions get or create
\* the Company of the record. process_filings then assigns the form string of
\* the record to Filing.form_type, a foreign key to FormIndex: the assignment
\* raises ValueError, which the except clause of the function writes to stderr.
\* process_filingindex_year gets or creates the FormIndex row, looks the
\* stored row up and puts the record into the batch when f != of.
FeedRecordStep ==
    /\ feedPc = "record"
    /\ LET filing == Head(feed)
           f == FilingIndexRow(filing)
           of == StoredIndexRow(f.accession_number)
       IN  /\ companies' = companies \cup {CompanyRow(filing.cik)}
           /\ IF feedTask = "process_filings"
                THEN /\ feedPc' = "done"
                     /\ feedError' = "ValueError"
                     /\ UNCHANGED <<feed, filing_objects, form_index>>
                ELSE /\ form_index' = form_index \cup {filing.form}
                     /\ filing_objects' = IF ModelNe(f, of) THEN Append(filing_objects, f)
                                          ELSE filing_objects
                     /\ feed' = Tail(feed)
                     /\ feedPc' = IF Tail(feed) = <<>> THEN "bulk_create" ELSE "record"
                     /\ UNCHANGED feedError
    /\ UNCHANGED <<feedTask, upsert, filing_index, filings, documents, cfgVars, gbVars,
                   storeVars, workerVars, pfiVars, lpVars>>

\* bulk_create(filing_objects, update_conflicts=True, unique_fields=[...]):
\* an empty batch returns at once; process_filings names no update_fields, for
\* which bulk_create raises ValueError; process_filingindex_year inserts the
\* rows of the batch and overwrites the stored rows that have their accession
\* numbers
FeedBulkCreate ==
    /\ feedPc = "bulk_create"
    /\ feedPc' = "done"
    /\ IF filing_objects = <<>>
         THEN UNCHANGED <<filing_index, feedError>>
         ELSE IF feedTask = "process_filings"
           THEN feedError' = "ValueError" /\ UNCHANGED filing_index
           ELSE /\ filing_index' =
                     {r \in filing_index :
                         \A i \in 1..Len(filing_objects) :
                             filing_objects[i].accession_number # r.accession_number}
                     \cup {filing_objects[i] : i \in 1..Len(filing_objects)}
                /\ UNCHANGED feedError
    /\ UNCHANGED <<feedTask, upsert, feed, filing_objects, form_index, cfgVars, gbVars, catVars,
                   storeVars, workerVars, pfiVars, lpVars>>

\* ------------------------------------------------------------------------
\* Specification of the retriever: any configuration, any server behaviour
\* ------------------------------------------------------------------------
InitConfig ==
    /\ HTTP_FAIL_SLEEP \in SeqsUpTo(Delays, MaxBackoffLen)
    /\ HTTP_SLEEP_DEFAULT \in DefaultSleeps

InitGetBuffer ==
    /\ gbPc = "idle"
    /\ complete = FALSE
    /\ failures = 0
    /\ file_buffer = None
    /\ last_modified_date = None
    /\ status_code = 0
    /\ attempts = 0
    /\ sleeps = <<>>
    /\ gbResult = NoResult

\* the catalog holds the Filing rows of the index feed (a row built from a
\* feed record has no path); a row may carry the path of its raw file from an
\* earlier load
InitCatalogRows(present, withPath) ==
    {FilingRow(acc, IF acc \in withPath THEN FilingPath(acc) ELSE <<>>, FALSE, FALSE, 0) :
        acc \in present}
\* ... and the Company row the feed has created for the filings it loaded
InitCompanies == companies = IF filings = {} THEN {} ELSE {CompanyRow(Registrant)}
\* before the tasks run the feed has loaded none of the filings, or all of them
InitCatalog ==
    /\ \E present \in {{}, Accessions} : filings = InitCatalogRows(present, {})
    /\ documents = {}
    /\ InitCompanies
InitCatalogWithPaths ==
    /\ \E present \in SUBSET Accessions : \E withPath \in SUBSET present :
          filings = InitCatalogRows(present, withPath)
    /\ documents = {}
    /\ InitCompanies

\* the content store holds no document blob yet
InitBlobStore ==
    /\ store = {}
    /\ writes = [p \in AllPaths |-> 0]
\* ... and some of the raw filings
InitStore ==
    /\ store \in SUBSET FilingPaths
    /\ writes = [p \in AllPaths |-> 0]

\* the filing that may hold up to MaxDocs documents when the tasks run one
\* after the other; every other filing holds up to MaxConcurrentDocs
LongFiling == "f1"
InitWorkers(oneAtATime) ==
    /\ parsed \in {p \in [Accessions -> DocLists(MaxDocs)] :
                     \A acc \in Accessions :
                         (~oneAtATime \/ acc # LongFiling) => Len(p[acc]) <= MaxConcurrentDocs}
    /\ store_raw \in BOOLEAN
    /\ store_text \in BOOLEAN
    /\ pc = [w \in Workers |-> "idle"]
    /\ call = [w \in Workers |-> NoCall]
    /\ calls = 0
    /\ serial = oneAtATime
    /\ runs = [p \in FilingPaths |-> 0]

InitIndexCall ==
    /\ pfiPc = "idle"
    /\ index_rows = <<>>
    /\ form_type_list = None
    /\ filing_path = <<>>
    /\ filing_buffer = None
    /\ bad_record_count = 0
    /\ missed = {}
    /\ errored = {}
    /\ pfiResult = Pending

\* no index is listed
InitIndex == InitIndexCall /\ index_data = <<>>
\* the rows of the index EDGAR lists
InitIndexData == InitIndexCall /\ index_data \in SeqsUpTo(IndexRows, MaxRows)

InitListPath ==
    /\ lpPc = "idle"
    /\ remote_path = <<>>
    /\ listing = NoPage
    /\ lpResult = Pending

\* no feed reconciler runs, and the catalog holds no FilingIndex row
InitFeedCall ==
    /\ feedPc = "idle"
    /\ feedTask = "process_filings"
    /\ upsert = FALSE
    /\ feed = <<>>
    /\ filing_objects = <<>>
    /\ feedError = ""
InitFeedIdle == InitFeedCall /\ filing_index = {} /\ form_index = {}
\* the catalog holds FilingIndex rows of an earlier load, one at most for an
\* accession number, and the FormIndex row of their form
InitFeedRows ==
    /\ InitFeedCall
    /\ \E stored \in [Accessions -> FeedContents \cup {"absent"}] :
          filing_index = {FilingIndexRow(FeedRecord(acc, stored[acc])) :
                             acc \in {a \in Accessions : stored[a] # "absent"}}
    /\ form_index = IF filing_index = {} THEN {} ELSE {"10-K"}

\* nothing else runs while the retriever is exercised
InitFeedOnly ==
    /\ filings = {FilingRow(acc, <<>>, FALSE, FALSE, 0) : acc \in Accessions}
    /\ documents = {}
    /\ InitCompanies
    /\ store = {}
    /\ writes = [p \in AllPaths |-> 0]

Init ==
    /\ InitConfig /\ InitGetBuffer /\ InitFeedOnly /\ InitWorkers(FALSE) /\ InitIndex /\ InitListPath /\ InitFeedIdle
    /\ \A acc \in Accessions : parsed[acc] = <<>>
    /\ ~store_raw /\ ~store_text

Next ==
    \/ GetBufferCall
    \/ GetBufferAttemptCompletes
    \/ GetBufferAttemptFails
    \/ GetBufferCheck

Spec == Init /\ [][Next]_vars

\* a request attempt ends, by completing or by raising, and the statements
\* after the loop run: the loop of get_buffer waits on nothing else
SpecFair ==
    /\ Spec
    /\ WF_vars(GetBufferAttemptCompletes \/ GetBufferAttemptFails)
    /\ WF_vars(GetBufferCheck)

\* ------------------------------------------------------------------------
\* Specifications of the tasks run by the workers
\* ------------------------------------------------------------------------
InitTasks(oneAtATime) ==
    /\ HTTP_FAIL_SLEEP = <<1>>
    /\ HTTP_SLEEP_DEFAULT = 0
    /\ InitGetBuffer /\ InitCatalog /\ InitBlobStore /\ InitWorkers(oneAtATime) /\ InitIndex /\ InitListPath /\ InitFeedIdle

NextTasks ==
    \/ \E w \in Workers : CfdCall(w)
    \/ \E w \in Workers : CfdRawPathExists(w)
    \/ \E w \in Workers : CfdRawPut(w)
    \/ \E w \in Workers : CfdTextPathExists(w)
    \/ \E w \in Workers : CfdTextPut(w)
    \/ \E w \in Workers : CfdBulkCreate(w)
    \/ \E w \in Workers : ProcessFilingCall(w)
    \/ \E w \in Workers : ProcessFilingExisting(w)

\* tasks run one after the other
SpecSerial == InitTasks(TRUE) /\ [][NextTasks]_vars
\* tasks run by the workers at the same time
SpecConcurrent == InitTasks(FALSE) /\ [][NextTasks]_vars

\* ------------------------------------------------------------------------
\* Specification of the feed reconcilers, called one after the other
\* ------------------------------------------------------------------------
InitReconcile ==
    /\ HTTP_FAIL_SLEEP = <<1>>
    /\ HTTP_SLEEP_DEFAULT = 0
    /\ InitGetBuffer /\ InitCatalog /\ InitBlobStore /\ InitWorkers(FALSE)
    /\ InitIndex /\ InitListPath /\ InitFeedRows
    /\ \A acc \in Accessions : parsed[acc] = <<>>
    /\ ~store_raw /\ ~store_text

NextReconcile ==
    \/ FeedCall
    \/ FeedRecordStep
    \/ FeedBulkCreate

SpecReconcile == InitReconcile /\ [][NextReconcile]_vars

\* ------------------------------------------------------------------------
\* Properties of get_buffer
\* ------------------------------------------------------------------------
BackoffSleeps == SelectSeq(sleeps, LAMBDA s : s.kind = "backoff")
GbFinished == gbPc \in {"returned", "raised"}

\* C1: when every request attempt of a get_buffer call fails with a transport
\* exception and HTTP_FAIL_SLEEP has length N, the call makes exactly N retries
\* (N+1 attempts), returns a miss (payload None) and raises nothing.
C1_RetryExhaustion ==
    (GbFinished /\ ~complete) =>
        /\ attempts = Len(HTTP_FAIL_SLEEP) + 1
        /\ failures = Len(HTTP_FAIL_SLEEP)
        /\ Len(BackoffSleeps) = Len(HTTP_FAIL_SLEEP)
        /\ gbPc = "returned"
        /\ gbResult.kind = "return"
        /\ gbResult.file_buffer = None
C1_Witness ==
    /\ gbPc = "returned"
    /\ ~complete
    /\ Len(HTTP_FAIL_SLEEP) >= 2
    /\ attempts = Len(HTTP_FAIL_SLEEP) + 1

\* C2: a completed request whose body contains the rate-limit marker makes
\* get_buffer fail with the rate-limited error, whatever the status code is,
\* and no payload reaches the caller.
C2_RateLimitedAnyStatus ==
    (GbFinished /\ complete /\ Contains(file_buffer, RATE_MARKER)) =>
        /\ gbPc = "raised"
        /\ gbResult.kind = "raise"
        /\ gbResult.msg = RATE_MESSAGE
        /\ gbResult.file_buffer = None
C2_Witness ==
    /\ gbPc = "raised"
    /\ complete
    /\ status_code # 200
    /\ Contains(file_buffer, RATE_MARKER)
    /\ Contains(file_buffer, NOTFOUND_MARKER)
    /\ gbResult.msg = RATE_MESSAGE

\* what a caller can tell from the outcome of get_buffer alone
Outcome(res) ==
    IF res.kind = "raise"
      THEN IF res.msg = RATE_MESSAGE THEN "RateLimited"
           ELSE IF res.msg = NOTFOUND_MESSAGE THEN "NotFound"
           ELSE IF res.msg = DENIED_MESSAGE THEN "AccessDenied"
           ELSE "Other"
      ELSE IF res.file_buffer = None THEN "Miss" ELSE "Payload"

\* C3: get_buffer raises a distinct error for each of the three markers: the
\* outcome of a call tells the caller which single marker the body held
\* (RateLimited, NotFound, AccessDenied), and each differs from a transport miss.
C3_DistinctErrors ==
    GbFinished =>
        /\ (complete /\ file_buffer.markers = {RATE_MARKER}) => Outcome(gbResult) = "RateLimited"
        /\ (complete /\ file_buffer.markers = {NOTFOUND_MARKER}) => Outcome(gbResult) = "NotFound"
        /\ (complete /\ file_buffer.markers = {DENIED_MARKER}) => Outcome(gbResult) = "AccessDenied"
        /\ ~complete => Outcome(gbResult) = "Miss"
        /\ Outcome(gbResult) = "RateLimited" => (complete /\ Contains(file_buffer, RATE_MARKER))
        /\ Outcome(gbResult) = "NotFound" => (complete /\ Contains(file_buffer, NOTFOUND_MARKER))
        /\ Outcome(gbResult) = "AccessDenied" => (complete /\ Contains(file_buffer, DENIED_MARKER))
        /\ Outcome(gbResult) = "Miss" => ~complete
        /\ Outcome(gbResult) # "Other"
C3_Witness ==
    /\ gbPc = "raised"
    /\ complete
    /\ file_buffer.markers = {NOTFOUND_MARKER}
    /\ Outcome(gbResult) = "NotFound"

\* C4: a host-signaled hard failure is never retried: once an attempt has
\* returned a body with a poison marker, the next step of get_buffer surfaces
\* the failure, with no further request and no backoff element consumed.
C4_PoisonNeverRetried ==
    [][(gbPc = "check" /\ file_buffer.markers # {}) =>
          /\ gbPc' = "raised"
          /\ attempts' = attempts
          /\ failures' = failures
          /\ sleeps' = sleeps]_vars
C4_Witness ==
    /\ gbPc = "raised"
    /\ failures >= 1
    /\ CanRetry(failures)
    /\ attempts = failures + 1

\* ------------------------------------------------------------------------
\* Properties of the ingestion tasks
\* ------------------------------------------------------------------------
DocumentsOf(acc) == {d \in documents : d.filing = acc}
\* the Documents of a parsed filing are all in the catalog, and nothing else of it
DocumentsCommitted(path) ==
    DocumentsOf(FilingData(path).accession_number) =
        DocumentRecords(FilingData(path).accession_number, FilingData(path).documents)
\* a call of create_filing_documents uploads the raw / text blob of a hash
CallUploadsRaw(c, sha1) ==
    /\ c.task = "cfd"
    /\ \E i \in 1..Len(c.docs) : c.docs[i].sha1 = sha1 /\ UploadsRaw(c.docs[i])
CallUploadsText(c, sha1) ==
    /\ c.task = "cfd"
    /\ \E i \in 1..Len(c.docs) : c.docs[i].sha1 = sha1 /\ UploadsText(c.docs[i])

\* C5: when get_buffer returns a miss for a filing process_filing_index had to
\* fetch, the run ends without an exception and the catalog holds an error
\* Filing (is_error, not is_processed) for that filing's path.
C5_MissEndsErrored ==
    (pfiPc = "done" /\ missed # {}) =>
        /\ pfiResult.kind = "return"
        /\ \A p \in missed : \E f \in filings : f.path = p /\ f.is_error /\ ~f.is_processed

\* C6: after two process_filing runs, one after the other, for the same file
\* path of a well-formed filing, the catalog holds exactly one Filing row of that accession and exactly
\* its set of FilingDocument rows, and no blob of it was written twice.
C6_IdempotentRerun ==
    \A p \in FilingPaths :
        (runs[p] >= 2 /\ FilingData(p).cik # None) =>
            /\ Cardinality({f \in filings : f.accession_number = FilingData(p).accession_number}) = 1
            /\ DocumentsCommitted(p)
            /\ \A i \in 1..Len(FilingData(p).documents) :
                  writes[RawPath(FilingData(p).documents[i].sha1)] <= 1

\* C7: when two workers have run process_filing concurrently for the same
\* accession of a well-formed filing, the catalog holds one Filing row of it, marked is_processed and
\* not is_error, with its complete Document set, and no worker has surfaced a
\* uniqueness violation.
C7_ConcurrentConverges ==
    \A p \in FilingPaths :
        (/\ \A w \in Workers : pc[w] = "done" /\ call[w].task = "pf" /\ call[w].file_path = p
         /\ FilingData(p).cik # None) =>
            /\ \A w \in Workers : call[w].result.type # "IntegrityError"
            /\ \E f \in filings :
                  /\ f.accession_number = FilingData(p).accession_number
                  /\ f.is_processed /\ ~f.is_error
            /\ Cardinality({f \in filings : f.accession_number = FilingData(p).accession_number}) = 1
            /\ DocumentsCommitted(p)

WritesPerCall ==
    \A sha1 \in Shas :
        /\ writes[RawPath(sha1)] <= Cardinality({w \in Workers : CallUploadsRaw(call[w], sha1)})
        /\ writes[TextPath(sha1)] <= Cardinality({w \in Workers : CallUploadsText(call[w], sha1)})
PutOnlyAfterMiss ==
    \A w \in Workers :
        /\ (pc[w] = "cfd_raw_exists" /\ pc'[w] = "cfd_raw_put") =>
               RawPath(call[w].docs[call[w].i].sha1) \notin store
        /\ (pc[w] = "cfd_text_exists" /\ pc'[w] = "cfd_text_put") =>
               TextPath(call[w].docs[call[w].i].sha1) \notin store
C10_PessimisticThenProcessed ==
    /\ \A f \in filings :
          f.is_processed => (~f.is_error /\ DocumentsCommitted(FilingPath(f.accession_number)))
    /\ \A w \in Workers :
          (/\ pc[w] = "done" /\ call[w].task = "pf" /\ call[w].filing_buffer # None
           /\ FilingData(call[w].file_path).cik # None) =>
              \E f \in filings :
                  /\ f.accession_number = FilingData(call[w].file_path).accession_number
                  /\ f.is_error # f.is_processed

\* ------------------------------------------------------------------------
\* Specification of process_filing_index, which fetches through get_buffer
\* ------------------------------------------------------------------------
InitConfigIndex ==
    /\ HTTP_FAIL_SLEEP = <<1>>
    /\ HTTP_SLEEP_DEFAULT = 0

InitIndexRun ==
    /\ InitConfigIndex /\ InitGetBuffer /\ InitCatalogWithPaths /\ InitStore
    /\ InitWorkers(TRUE) /\ InitIndexData /\ InitListPath /\ InitFeedIdle
    /\ \A acc \in Accessions : parsed[acc] = <<>>
    /\ ~store_raw /\ ~store_text

NextIndex ==
    \/ PfiCall
    \/ PfiRow
    \/ PfiPathExists
    \/ GetBufferAttemptCompletes
    \/ GetBufferAttemptFails
    \/ GetBufferCheck
    \/ PfiGetBufferDone
    \/ PfiPutBuffer
    \/ PfiProcessFiling
    \/ PfiIndexRecord

SpecIndex == InitIndexRun /\ [][NextIndex]_vars

\* ------------------------------------------------------------------------
\* Properties of the catalog rows and of the index run
\* ------------------------------------------------------------------------
\* C12: the FilingDocument rows of one Filing are inserted all or none:
\* whatever create_filing_documents has done so far, returned or failed at any
\* document, the catalog holds every Document of a filing or none of it.
C12_AllOrNone ==
    \A acc \in Accessions :
        \/ DocumentsOf(acc) = {}
        \/ DocumentsOf(acc) = DocumentRecords(acc, parsed[acc])
\* a content-store write failed on the second document of a filing whose first
\* document had been uploaded, and no Document of the filing is in the catalog
C12_Witness ==
    \E w \in Workers :
        /\ pc[w] = "done" /\ call[w].task = "cfd"
        /\ call[w].result = Exc("IOError")
        /\ call[w].i = 2
        /\ RawPath(call[w].docs[1].sha1) \in store
        /\ DocumentsOf(call[w].filing) = {}

\* the error Filing records of a path
ErrorFilings(p) == {f \in filings : f.path = p /\ f.is_error /\ ~f.is_processed}
\* process_filing has been run for a path by process_filing_index, which has ended
RanThroughIndex(p) == pfiPc = "done" /\ runs[p] >= 1

\* C14: when parse_filing finds no registrant identifier in a filing that
\* process_filing_index has run process_filing on, the catalog holds exactly
\* one error Filing for the path (is_error, not is_processed), no
\* FilingDocument row of the filing, and no sub-document blob was written.
C14_NoCikEndsErrored ==
    \A p \in FilingPaths :
        (RanThroughIndex(p) /\ FilingData(p).cik = None) =>
            /\ Cardinality(ErrorFilings(p)) = 1
            /\ DocumentsOf(FilingData(p).accession_number) = {}
            /\ \A sha1 \in Shas : writes[RawPath(sha1)] = 0 /\ writes[TextPath(sha1)] = 0

\* C15: every terminal error path of one filing in process_filing_index ends
\* with an error Filing record for the filing's path in the catalog: each step
\* that counts a bad record (fetch failure signalled by the host, process_filing
\* returning None) leaves such a record, and so has every path whose fetch
\* exhausted its retries once the run has ended.
C15_BadRecordStep ==
    bad_record_count' > bad_record_count => \E f \in filings' : f.path = filing_path /\ f.is_error
C15_MissRecorded ==
    pfiPc = "done" => \A p \in missed : \E f \in filings : f.path = p /\ f.is_error
C15_ErrorPathsRecorded == []C15_MissRecorded /\ [][C15_BadRecordStep]_vars

\* C16: a failure while processing one index row never aborts the batch: when
\* process_filing_index has ended, no row after the one it was on is left
\* unvisited.
C16_BatchNeverAborted ==
    pfiPc = "done" => Len(index_rows) <= 1

\* the filing a worker's task is about
CallAccession(c) == IF c.task = "cfd" THEN c.filing ELSE FilingData(c.file_path).accession_number
\* the catalog rows of a filing
RowsOf(acc, catalog, docs) ==
    <<{f \in catalog : f.accession_number = acc}, {d \in docs : d.filing = acc}>>

\* C17: a failure during the ingestion of one filing never changes the Filing
\* or FilingDocument rows of a different filing: no step of a worker's task,
\* failing or not, changes the rows of a filing other than the one the task is
\* about.
C17_OtherRowsUnchanged ==
    \A w \in Workers :
        pc'[w] # pc[w] =>
            \A acc \in Accessions \ {CallAccession(call'[w])} :
                RowsOf(acc, filings', documents') = RowsOf(acc, filings, documents)
C17_OtherFilingsUntouched == [][C17_OtherRowsUnchanged]_vars
\* the ingestion of one filing has failed on a content-store write while the
\* other filing has its Documents in the catalog
C17_Witness ==
    \E w \in Workers :
        /\ pc[w] = "done"
        /\ call[w].task = "cfd"
        /\ call[w].result = Exc("IOError")
        /\ \E acc \in Accessions \ {call[w].filing} : DocumentsOf(acc) # {}

\* C18: if a Filing with the accession number of an index row already exists
\* in the catalog, process_filing_index and process_filing treat the ingestion
\* as satisfied: no step writes the raw filing to the content store or changes
\* the catalog rows of the filing.
C18_ExistingUntouched ==
    \A acc \in Accessions :
        (\E f \in filings : f.accession_number = acc) =>
            /\ writes'[FilingPath(acc)] = writes[FilingPath(acc)]
            /\ RowsOf(acc, filings', documents') = RowsOf(acc, filings, documents)
C18_ExistingAccessionSatisfied == [][C18_ExistingUntouched]_vars

\* C19: once create_filing_error has recorded a filing path, a later pass of
\* process_filing_index over the same path finds the record: the row is not
\* taken as new (fetched, stored and processed) again.
C19_ErroredNotTakenAsNew ==
    (pfiPc = "row" /\ pfiPc' = "path_exists") => filing_path' \notin errored
C19_ErrorRecordFound == [][C19_ErroredNotTakenAsNew]_vars

\* C20: in process_filing_index, when the content store already holds the raw
\* filing at its path, the bytes are read from the content store and no
\* request is made for the filing: get_buffer is entered only for a path the
\* content store does not hold, and a path it holds goes on to process_filing
\* with the stored bytes.
C20_FetchOrRead ==
    /\ (gbPc # "loop" /\ gbPc' = "loop") => ~PathExists(filing_path)
    /\ (pfiPc = "path_exists" /\ pfiPc' # "path_exists" /\ PathExists(filing_path)) =>
          /\ pfiPc' = "process_filing"
          /\ filing_buffer' # None
          /\ UNCHANGED <<gbVars, storeVars>>
C20_CachedSkipsFetch == [][C20_FetchOrRead]_vars
\* a stored raw filing has reached process_filing without any request
C20_Witness ==
    /\ pfiPc = "process_filing"
    /\ filing_path \in store
    /\ writes[filing_path] = 0
    /\ gbPc = "idle"

\* C21: when two workers have run process_filing concurrently for filings of
\* one registrant, whether or not it had a Company row, the catalog holds
\* exactly one Company row for the registrant, each worker's filing has its
\* Filing row, and no worker's call has ended in an exception.
C21_CompanyRaceResolved ==
    (/\ \A w \in Workers :
           /\ pc[w] = "done" /\ call[w].task = "pf"
           /\ FilingData(call[w].file_path).cik = Registrant
     /\ \E v \in Workers, w \in Workers : v # w) =>
        /\ Cardinality({c \in companies : c.cik = Registrant}) = 1
        /\ \A w \in Workers :
              /\ call[w].result.kind # "raise"
              /\ \E f \in filings :
                    f.accession_number = FilingData(call[w].file_path).accession_number

\* ------------------------------------------------------------------------
\* Specification of list_path, which fetches through get_buffer
\* ------------------------------------------------------------------------
\* the path listed and the page the server holds for it
InitListedPage ==
    /\ lpPc = "idle"
    /\ remote_path \in RemotePaths
    /\ listing \in Pages
    /\ lpResult = Pending

InitListing ==
    /\ InitConfigIndex /\ InitGetBuffer /\ InitFeedOnly /\ InitWorkers(FALSE) /\ InitFeedIdle
    /\ InitIndex /\ InitListedPage
    /\ \A acc \in Accessions : parsed[acc] = <<>>
    /\ ~store_raw /\ ~store_text

NextListing ==
    \/ ListPathCall
    \/ GetBufferAttemptCompletes
    \/ GetBufferAttemptFails
    \/ GetBufferCheck
    \/ ListPathParse

SpecListing == InitListing /\ [][NextListing]_vars

\* the listing path without its trailing separators
RECURSIVE RStrip(_)
RStrip(path) ==
    IF Len(path) > 0 /\ path[Len(path)] = "/" THEN RStrip(SubSeq(path, 1, Len(path) - 1))
    ELSE path
\* list_path has ended after get_buffer gave it a buffer
BufferListed == lpPc = "done" /\ gbResult.kind = "return" /\ gbResult.file_buffer # None
\* list_path has parsed the buffer into a list of paths
ListReturned == BufferListed /\ lpResult.kind = "return" /\ lpResult.value.tag = "list"

\* C22: list_path returns an href starting with "/" unchanged and joins a
\* relative href onto the listing path into one well-formed path, the listing
\* path, one separator, the href, whether or not the listing path ends with a
\* separator.
C22_HrefNormalized ==
    ListReturned =>
        LET good == GoodLinkList(listing.anchors)
            urls == lpResult.value.items
        IN  /\ Len(urls) = Len(good)
            /\ \A i \in 1..Len(urls) :
                  urls[i] = IF StartsWithSlash(good[i].href) THEN good[i].href
                            ELSE RStrip(remote_path) \o <<"/">> \o good[i].href

\* get_buffer has handed list_path no buffer
NoBufferListed == lpPc = "done" /\ gbResult.kind = "return" /\ gbResult.file_buffer = None
\* C23: list_path returns the empty list, not an exception, when get_buffer
\* returns no buffer, and when the buffer is present but has no "main-content"
\* element its outcome is the failure value, which is no list of paths, the
\* empty one included.
C23_EmptyOrParseFailure ==
    /\ NoBufferListed => lpResult = Ret(List(<<>>))
    /\ (BufferListed /\ ~listing.has_main) =>
          /\ lpResult.kind = "return"
          /\ lpResult.value = None
          /\ lpResult.value.tag # "list"
C23_Witness == BufferListed /\ ~listing.has_main /\ Len(listing.anchors) > 0
C23_WitnessNoBuffer == NoBufferListed /\ listing.has_main

\* a step writes the raw blob of sha1, or its text blob
WritesRaw(sha1) == RawPath(sha1) \notin store /\ RawPath(sha1) \in store'
WritesText(sha1) == TextPath(sha1) \notin store /\ TextPath(sha1) \in store'
\* a write in one namespace leaves path_exists of every path of the other as it
\* was, and a missing blob is uploaded whatever the other namespace holds
NamespaceStep ==
    /\ \A sha1 \in Shas :
          /\ WritesRaw(sha1) => \A other \in Shas :
                (TextPath(other) \in store') = (TextPath(other) \in store)
          /\ WritesText(sha1) => \A other \in Shas :
                (RawPath(other) \in store') = (RawPath(other) \in store)
    /\ \A w \in Workers :
          /\ (pc[w] = "cfd_raw_exists" /\ pc'[w] # pc[w]
                /\ RawPath(call[w].docs[call[w].i].sha1) \notin store) => pc'[w] = "cfd_raw_put"
          /\ (pc[w] = "cfd_text_exists" /\ pc'[w] # pc[w]
                /\ TextPath(call[w].docs[call[w].i].sha1) \notin store) => pc'[w] = "cfd_text_put"
NamespacesDisjoint == \A raw \in Shas, text \in Shas : RawPath(raw) # TextPath(text)
\* C24: the raw path and the text path of a content hash differ, a write under
\* raw/ never makes path_exists true for a path under text/ nor the reverse,
\* and the check of one namespace never skips the upload of a blob missing
\* from it because the other namespace holds the hash.
C24_NamespacesNeverCollide == []NamespacesDisjoint /\ [][NamespaceStep]_vars
C24_Witness ==
    \E w \in Workers :
        /\ pc[w] = "cfd_text_put"
        /\ writes[RawPath(call[w].docs[call[w].i].sha1)] > 0
        /\ TextPath(call[w].docs[call[w].i].sha1) \notin store

\* no two FilingDocument rows share a (filing, sequence) pair
SequenceUnique ==
    \A d1 \in documents, d2 \in documents :
        (d1.filing = d2.filing /\ d1.sequence = d2.sequence) => d1 = d2
\* the bulk insert of a Document set for a filing that has Document rows ends
\* with IntegrityError and leaves the FilingDocument table as it was
SecondSetRejected ==
    \A w \in Workers :
        (/\ pc[w] = "cfd_bulk_create" /\ pc'[w] = "done"
         /\ call[w].docs # <<>>
         /\ \E d \in documents : d.filing = call[w].filing) =>
            /\ documents' = documents
            /\ call'[w].result = Exc("IntegrityError")
MismatchIngested(w) ==
    /\ pc[w] = "done" /\ call[w].task = "pf" /\ call[w].filing_buffer # None
    /\ FilingData(call[w].file_path).cik # None
    /\ Len(FilingData(call[w].file_path).documents) # FilingData(call[w].file_path).document_count
    /\ call[w].result \notin {Exc("IOError"), Exc("IntegrityError")}
\* C27: a filing whose parsed document count differs from the count its header
\* declares is marked is_processed, not is_error, by process_filing when
\* nothing failed while its documents were stored and inserted.
C27_MismatchStillProcessed ==
    \A w \in Workers :
        MismatchIngested(w) =>
            \E f \in filings :
                /\ f.accession_number = FilingData(call[w].file_path).accession_number
                /\ f.is_processed /\ ~f.is_error

\* the raw bytes of the filing with an accession number
RawBytesOf(acc) == RawBytes([i \in 1..Len(parsed[acc]) |-> parsed[acc][i].sha1])
\* C28: every FilingDocument row written by create_filing_documents lies within
\* the raw bytes of its filing, 0 <= start_pos < end_pos <= len(raw_bytes), its
\* sha1 is the digest of raw_bytes[start_pos:end_pos], and its start_pos,
\* end_pos and sha1 are those of the splitter's descriptor of its sequence.
C28_OffsetsWithinFiling ==
    \A d \in documents :
        /\ 0 <= d.start_pos /\ d.start_pos < d.end_pos
        /\ d.end_pos <= Len(RawBytesOf(d.filing))
        /\ d.sha1 = Digest(Slice(RawBytesOf(d.filing), d.start_pos, d.end_pos))
        /\ d.sequence \in 1..Len(parsed[d.filing])
        /\ d.start_pos = parsed[d.filing][d.sequence].start_pos
        /\ d.end_pos = parsed[d.filing][d.sequence].end_pos
        /\ d.sha1 = parsed[d.filing][d.sequence].sha1
\* a call has inserted two rows, the second for a sub-document without content
C28_Witness ==
    \E w \in Workers :
        /\ pc[w] = "done" /\ call[w].task = "cfd" /\ call[w].result = Ret(2)
        /\ \E d \in documents :
              d.filing = call[w].filing /\ d.sequence = 2 /\ d.sha1 = EMPTY_SHA1

\* C29: in get_buffer the k-th retry waits for the k-th element of
\* HTTP_FAIL_SLEEP: the backoff waits made so far are the first elements of
\* the sequence in order, one per failure counted, and the failure counter
\* never exceeds the length of the sequence.
C29_BackoffInOrder ==
    /\ failures <= Len(HTTP_FAIL_SLEEP)
    /\ Len(BackoffSleeps) = failures
    /\ \A k \in 1..Len(BackoffSleeps) : BackoffSleeps[k].secs = HTTP_FAIL_SLEEP[k]
C29_Witness ==
    /\ GbFinished
    /\ failures = 2
    /\ HTTP_FAIL_SLEEP[1] # HTTP_FAIL_SLEEP[2]
    /\ BackoffSleeps[2].secs = HTTP_FAIL_SLEEP[2]

\* a call in progress makes no request after one has completed: its next step
\* ends it
StopsAtCompletion ==
    (gbPc \notin {"idle", "returned", "raised"} /\ complete) =>
        /\ attempts' = attempts
        /\ gbPc' \in {"returned", "raised"}
\* C30: every call of get_buffer ends, after at most len(HTTP_FAIL_SLEEP)+1
\* request attempts whichever of them fail and complete, and makes no attempt
\* after the first one that completes.
C30_BoundedAttempts ==
    /\ [](attempts <= Len(HTTP_FAIL_SLEEP) + 1)
    /\ [][StopsAtCompletion]_vars
    /\ (gbPc = "loop" ~> GbFinished)
C30_Witness ==
    /\ gbPc = "returned"
    /\ complete
    /\ attempts = Len(HTTP_FAIL_SLEEP) + 1
    /\ Len(HTTP_FAIL_SLEEP) >= 2

\* the inter-request delays of the call so far
InterRequestSleeps == SelectSeq(sleeps, LAMBDA s : s.kind = "default")
\* C31: in get_buffer with HTTP_SLEEP_DEFAULT > 0 one delay of
\* HTTP_SLEEP_DEFAULT follows the attempt that completes, whatever number of
\* attempts failed before it; a failed attempt is followed by no such delay,
\* and the delay takes no element of HTTP_FAIL_SLEEP.
C31_InterRequestDelay ==
    (gbPc # "idle" /\ HTTP_SLEEP_DEFAULT > 0) =>
        /\ Len(InterRequestSleeps) = IF complete THEN 1 ELSE 0
        /\ \A k \in 1..Len(InterRequestSleeps) : InterRequestSleeps[k].secs = HTTP_SLEEP_DEFAULT
        /\ complete => sleeps[Len(sleeps)].kind = "default"
        /\ Len(BackoffSleeps) = failures
        /\ Len(sleeps) = failures + Len(InterRequestSleeps)
C31_Witness ==
    /\ GbFinished
    /\ complete
    /\ HTTP_SLEEP_DEFAULT > 0
    /\ failures = 2
    /\ Len(InterRequestSleeps) = 1

\* the anchors of a listing other than the "Parent Directory" link, in order
RECURSIVE NonParentAnchors(_)
NonParentAnchors(anchors) ==
    IF anchors = <<>> THEN <<>>
    ELSE IF anchors[1].parent THEN NonParentAnchors(Tail(anchors))
    ELSE <<anchors[1]>> \o NonParentAnchors(Tail(anchors))
\* a path ends with an href
EndsWith(path, href) ==
    /\ Len(path) >= Len(href)
    /\ SubSeq(path, Len(path) - Len(href) + 1, Len(path)) = href
\* the result of list_path holds, in order, one path for each anchor other
\* than the parent-directory link
OnePathPerAnchor ==
    LET kept == NonParentAnchors(listing.anchors)
    IN  /\ lpResult.kind = "return"
        /\ lpResult.value.tag = "list"
        /\ Len(lpResult.value.items) = Len(kept)
        /\ \A i \in 1..Len(kept) :
              kept[i].has_href /\ EndsWith(lpResult.value.items[i], kept[i].href)
\* C32 as stated: for every page with the content container list_path returns
\* one path for every anchor other than the "Parent Directory" link, in the
\* order of the listing.
C32_EveryAnchorListed == (BufferListed /\ listing.has_main) => OnePathPerAnchor
\* C32 amended: list_path returns one path for every anchor other than the
\* "Parent Directory" link, in the order of the listing, when each of those
\* anchors has an href attribute; when one of them has none it returns None
\* and no path at all.
C32_EveryAnchorWithHrefListed ==
    (BufferListed /\ listing.has_main) =>
        IF \A i \in 1..Len(listing.anchors) :
               listing.anchors[i].parent \/ listing.anchors[i].has_href
          THEN OnePathPerAnchor
          ELSE lpResult = Ret(None)
\* a listing of a parent-directory link followed by two different links
C32_Witness ==
    /\ BufferListed /\ listing.has_main
    /\ Len(listing.anchors) = 3
    /\ listing.anchors[1].parent
    /\ ~listing.anchors[2].parent /\ ~listing.anchors[3].parent
    /\ listing.anchors[2].has_href /\ listing.anchors[3].has_href
    /\ listing.anchors[2].href # listing.anchors[3].href
    /\ Len(lpResult.value.items) = 2

\* process_filing_index is at the head of the loop body with a row that the
\* form type whitelist does not skip
RowTaken ==
    /\ pfiPc = "row" /\ index_rows # <<>>
    /\ Whitelisted(Head(index_rows), form_type_list)
\* C35: in process_filing_index every index row that is not skipped is looked
\* up under the filing path of its own File Name, whatever the prefix of the
\* name; the path of an earlier row is never used for it.
C35_OwnPathPerRow ==
    [][RowTaken => filing_path' = FilingPath(Head(index_rows).rest)]_vars

\* process_filing_index is at the head of the loop body with a row whose form
\* type is not in the whitelist it was given
RowNotInWhitelist ==
    /\ pfiPc = "row" /\ index_rows # <<>>
    /\ form_type_list # None
    /\ Head(index_rows).form_type \notin form_type_list.items
\* C39: in process_filing_index with a form-type whitelist, a row whose form
\* type is not in the whitelist is passed over in one step that makes no
\* request, reads and writes nothing in the content store, writes nothing in
\* the catalog and leaves bad_record_count as it was.
C39_SkippedRowTouchesNothing ==
    [][RowNotInWhitelist =>
          /\ pfiPc' = "row" /\ index_rows' = Tail(index_rows)
          /\ attempts' = attempts /\ gbPc' = gbPc
          /\ store' = store /\ writes' = writes
          /\ filing_buffer' = filing_buffer
          /\ filings' = filings /\ documents' = documents /\ companies' = companies
          /\ bad_record_count' = bad_record_count
          /\ errored' = errored /\ runs' = runs]_vars
\* a run over an index of one row, which the whitelist leaves out, has ended
C39_Witness ==
    /\ pfiPc = "done"
    /\ form_type_list = List({"10-K"})
    /\ index_data = <<IndexRow("Archives/", "f2", "8-K")>>
    /\ index_rows = <<>>
    /\ bad_record_count = 0

\* the first run of process_filing_index has gone through every row of the index
FirstRunThroughIndex == pfiPc = "done" /\ calls = 1 /\ index_rows = <<>>
\* C37: when process_filing_index has gone through the index, the index record
\* is saved and its bad_record_count is the number of error Filings the run
\* created, one per failed row; skipped rows, rows already present and rows
\* processed add nothing to it.
C37_BadRecordCountRecorded ==
    FirstRunThroughIndex =>
        /\ pfiResult.kind = "return"
        /\ bad_record_count = Cardinality({f \in filings : f.is_error /\ ~f.is_processed})

\* the blobs of a FilingDocument row's sub-document are in the content store
BlobsStored(d) ==
    /\ RawPath(d.sha1) \in store
    /\ ContentText(d.sha1) # None => TextPath(d.sha1) \in store
\* C36: a FilingDocument row of a sub-document with content, whose blobs are
\* stored, is recorded as processed and not as an error.
C36_StoredDocumentNotError ==
    \A d \in documents :
        (d.sha1 # EMPTY_SHA1 /\ BlobsStored(d)) => (d.is_processed /\ ~d.is_error)

\* a call of create_filing_documents has returned
CfdReturned(w) == pc[w] = "done" /\ call[w].task = "cfd" /\ call[w].result.kind = "return"
FeedRecordTaken == feedPc = "record"
\* no row with the accession number of the record is stored in the table the
\* reconciler loads (Filing for process_filings, FilingIndex for
\* process_filingindex_year), or the stored row differs from the row built
\* from the record
NewOrChanged(filing) ==
    IF feedTask = "process_filings"
      THEN \A r \in filings : r.accession_number # filing.accession_number
      ELSE FilingIndexRow(filing) \notin filing_index
\* C33: a feed reconciler puts a feed record into the batch exactly when no
\* row with its accession number is stored or the stored row differs from it.
C33_BatchedWhenNewOrChanged ==
    [][FeedRecordTaken =>
          (filing_objects' = Append(filing_objects, FilingIndexRow(Head(feed)))
               <=> NewOrChanged(Head(feed)))]_vars

====
